---------------------------- MODULE Spec2Model ----------------------------
(***************************************************************************)
(* A model of app.py, the bulk invoice converter (PDF -> Excel and XML).   *)
(*                                                                         *)
(* Strings are sequences of one-character strings, so that the regular     *)
(* expressions and string methods of the source can be modelled character  *)
(* by character.  A float is a decimal m / 10^e kept in lowest form; the   *)
(* amounts of the model are short enough for the double arithmetic of the  *)
(* source to be exact on them (see pyround).                               *)
(***************************************************************************)
EXTENDS Integers, Sequences, FiniteSets, TLC

VARIABLES
    pc,              \* position of the script / of the function under call
    arg,             \* argument of the function under call
    ret,             \* its return value
    uploaded_files,  \* st.file_uploader's list
    i,               \* the processing loop's counter (enumerate, start=1)
    parsed,          \* the list `parsed`
    faktur_rows,     \* build_excel_and_xml: sheet Faktur
    detail_rows,     \* build_excel_and_xml: sheet DetailFaktur
    xml_invoices     \* build_excel_and_xml: the TaxInvoice elements

vars == <<pc, arg, ret, uploaded_files, i, parsed, faktur_rows, detail_rows,
          xml_invoices>>

batch_vars == <<uploaded_files, i, parsed, faktur_rows, detail_rows, xml_invoices>>

-----------------------------------------------------------------------------
(* Characters and the string methods the source uses. *)

Digits == <<"0", "1", "2", "3", "4", "5", "6", "7", "8", "9">>

UpperLetters == <<"A", "B", "C", "D", "E", "F", "G", "H", "I", "J", "K", "L", "M",
                  "N", "O", "P", "Q", "R", "S", "T", "U", "V", "W", "X", "Y", "Z">>

LowerLetters == <<"a", "b", "c", "d", "e", "f", "g", "h", "i", "j", "k", "l", "m",
                  "n", "o", "p", "q", "r", "s", "t", "u", "v", "w", "x", "y", "z">>

Range(f) == {f[k] : k \in DOMAIN f}

DigitSet == Range(Digits)
UpperSet == Range(UpperLetters)
LowerSet == Range(LowerLetters)
SpaceSet == {" ", "\t", "\n", "\r"}

IsDigit(c) == c \in DigitSet
IsSpace(c) == c \in SpaceSet
IsAlpha(c) == c \in UpperSet \cup LowerSet

DigitVal(c) == (CHOOSE k \in 1..10 : Digits[k] = c) - 1

\* Python's None where a string is expected: no string of characters.
None == <<"None">>

\* str.lower(), one character
lower_char(c) ==
    IF c \in UpperSet THEN LowerLetters[CHOOSE k \in 1..26 : UpperLetters[k] = c] ELSE c

\* str.lower()
lower(s) == [k \in 1..Len(s) |-> lower_char(s[k])]

\* str.count(c), c one character
str_count(s, c) == Cardinality({k \in 1..Len(s) : s[k] = c})

\* str.rfind(c), c one character: the 0-based index of the last c, or -1
str_rfind(s, c) ==
    IF \E k \in 1..Len(s) : s[k] = c
    THEN (CHOOSE k \in 1..Len(s) : s[k] = c /\ \A j \in (k+1)..Len(s) : s[j] # c) - 1
    ELSE -1

RECURSIVE str_replace(_, _, _)
\* str.replace(c, r): every occurrence of the character c replaced by the string r
str_replace(s, c, r) ==
    IF s = <<>> THEN <<>>
    ELSE (IF Head(s) = c THEN r ELSE <<Head(s)>>) \o str_replace(Tail(s), c, r)

RECURSIVE lstrip(_)
lstrip(s) == IF s # <<>> /\ IsSpace(Head(s)) THEN lstrip(Tail(s)) ELSE s

RECURSIVE rstrip(_)
rstrip(s) ==
    IF s # <<>> /\ IsSpace(s[Len(s)]) THEN rstrip(SubSeq(s, 1, Len(s) - 1)) ELSE s

\* str.strip()
strip(s) == rstrip(lstrip(s))

\* re.sub(r"\D", "", s)
digits_only(s) == SelectSeq(s, IsDigit)

RECURSIVE zfill(_, _)
\* str.zfill(width) of a string without a sign
zfill(s, width) == IF Len(s) >= width THEN s ELSE zfill(<<"0">> \o s, width)

-----------------------------------------------------------------------------
(* Numbers. *)

\* A float: m / 10^e with e as small as possible; null is Python's None.
NoNumber == [null |-> TRUE, m |-> 0, e |-> 0]

RECURSIVE Decimal(_, _)
Decimal(m, e) ==
    IF e > 0 /\ m % 10 = 0 THEN Decimal(m \div 10, e - 1)
    ELSE [null |-> FALSE, m |-> m, e |-> e]

RECURSIVE Pow10(_)
Pow10(e) == IF e = 0 THEN 1 ELSE 10 * Pow10(e - 1)

RECURSIVE DigitsValue(_)
\* the integer a string of digits denotes
DigitsValue(s) ==
    IF s = <<>> THEN 0 ELSE 10 * DigitsValue(SubSeq(s, 1, Len(s) - 1)) + DigitVal(s[Len(s)])

AllDigits(s) == \A k \in 1..Len(s) : IsDigit(s[k])

\* Whether float() accepts s, a string over digits, ',', '.' and '-':
\* [-] (digits [. [digits]] | . digits)
IsFloatLiteral(s) ==
    LET u == IF s # <<>> /\ Head(s) = "-" THEN Tail(s) ELSE s
        dots == str_count(u, ".")
    IN  /\ \A k \in 1..Len(u) : IsDigit(u[k]) \/ u[k] = "."
        /\ dots <= 1
        /\ Len(u) - dots >= 1

\* float(s), or None where float() raises ValueError
float(s) ==
    IF ~IsFloatLiteral(s) THEN NoNumber
    ELSE LET neg == Head(s) = "-"
             u == IF neg THEN Tail(s) ELSE s
             p == str_rfind(u, ".")
             frac == IF p < 0 THEN 0 ELSE Len(u) - (p + 1)
             mag == DigitsValue(digits_only(u))
         IN  Decimal(IF neg THEN 0 - mag ELSE mag, frac)

\* re.sub(r"[^\d,.\-]", "", s)
amount_chars(s) == SelectSeq(s, LAMBDA c : IsDigit(c) \/ c \in {",", ".", "-"})

\* Lines 43-49: only periods, each one a thousands separator.
\* (A variant that keeps the period as a decimal point, as a bug would.)
clean_number_dots_as_decimal(s) == float(s)

clean_number_dots(s) == float(str_replace(s, ".", <<>>))

\* Lines 50-56: only commas, each one a thousands separator.
clean_number_commas(s) == float(str_replace(s, ",", <<>>))

\* Lines 57-76: both separators.  The comma-last heuristic runs when the last
\* separator is a comma; when its float() raises, or when the last separator
\* is a period, control reaches the period-last heuristic, and from there
\* the fallback.
clean_number_both(s) ==
    LET comma_last == float(str_replace(str_replace(s, ".", <<>>), ",", <<".">>))
        dot_last == float(str_replace(s, ",", <<>>))
    IN  IF str_rfind(s, ",") > str_rfind(s, ".") /\ ~comma_last.null THEN comma_last
        ELSE IF ~dot_last.null THEN dot_last
        ELSE float(s)

clean_number(text) ==
    IF text = None THEN NoNumber
    ELSE LET s == amount_chars(strip(text))
         IN  IF s = <<>> THEN NoNumber
             ELSE IF str_count(s, ".") > 0 /\ str_count(s, ",") = 0
                  THEN clean_number_dots(s)
             ELSE IF str_count(s, ",") > 0 /\ str_count(s, ".") = 0
                  THEN clean_number_commas(s)
             ELSE IF str_count(s, ",") > 0 /\ str_count(s, ".") > 0
                  THEN clean_number_both(s)
             ELSE float(s)

-----------------------------------------------------------------------------
(* clean_number called on every amount string within the bounds. *)

MaxAmountLen == 4

AmountAlphabet == {"0", "1", ",", ".", "-", "x"}

RECURSIVE StringsUpTo(_, _)
\* the strings over `alphabet` of length at most n
StringsUpTo(alphabet, n) ==
    IF n = 0 THEN {<<>>}
    ELSE LET shorter == StringsUpTo(alphabet, n - 1)
         IN  shorter \cup {<<c>> \o s : c \in alphabet, s \in {t \in shorter : Len(t) = n - 1}}

ExampleAmounts ==
    { <<"1", ".", "2", "3", "4", ",", "5", "6">>,      \* '1.234,56'
      <<"1", ",", "2", "3", "4", ".", "5", "6">>,      \* '1,234.56'
      <<"7", "6", "2", ".", "3", "0", "0">>,           \* '762.300'
      <<"7", "6", "2", ".", "3", "0", "0", ",", "0", "0">>,   \* '762.300,00'
      <<"R", "p", " ", "9", "0", "0", ".", "0", "0", "0">>,   \* 'Rp 900.000'
      <<"1", ",", "2", "3", "4", ".", "5", "6", "7", ",", "8", "9">>,  \* '1,234.567,89'
      <<"a", "b", "c">>,                               \* 'abc'
      None }

AmountInputs == StringsUpTo(AmountAlphabet, MaxAmountLen) \cup ExampleAmounts

BatchIdle ==
    /\ uploaded_files = <<>>
    /\ i = 0
    /\ parsed = <<>>
    /\ faktur_rows = <<>>
    /\ detail_rows = <<>>
    /\ xml_invoices = <<>>

InitNum ==
    /\ pc = "call"
    /\ arg \in AmountInputs
    /\ ret = NoNumber
    /\ BatchIdle

Call_clean_number ==
    /\ pc = "call"
    /\ ret' = clean_number(arg)
    /\ pc' = "done"
    /\ UNCHANGED <<arg, batch_vars>>

NextNum == Call_clean_number

SpecNum == InitNum /\ [][NextNum]_vars


-----------------------------------------------------------------------------
(* Claims about clean_number, under SpecNum. *)

Called == pc = "done" /\ arg # None

\* what is left of the argument after line 38
Residual == amount_chars(strip(arg))

HasBoth(s) == str_count(s, ",") > 0 /\ str_count(s, ".") > 0

\* The reading the specification gives a string with both separators: the one
\* that occurs last is the decimal point, the other is removed.
LastSeparatorReading(s) ==
    IF str_rfind(s, ",") > str_rfind(s, ".")
    THEN float(str_replace(str_replace(s, ".", <<>>), ",", <<".">>))
    ELSE float(str_replace(s, ",", <<>>))

\* C1: for an amount string with both a comma and a period, clean_number
\* returns the number read with the last separator as the decimal point and
\* the other separator removed, null when that string is not numeric, and
\* never any other reading.
C1_LastSeparatorIsDecimal ==
    (Called /\ HasBoth(Residual)) => ret = LastSeparatorReading(Residual)

\* The string the specification parses, per class of separators.
NormalisedAmount(s) ==
    IF HasBoth(s) THEN
        IF str_rfind(s, ",") > str_rfind(s, ".")
        THEN str_replace(str_replace(s, ".", <<>>), ",", <<".">>)
        ELSE str_replace(s, ",", <<>>)
    ELSE str_replace(str_replace(s, ".", <<>>), ",", <<>>)

\* C9: clean_number returns null whenever the residual string is empty or is
\* not numeric after separator normalisation ('' , None and 'abc' included).
C9_NullWhenNotNumeric ==
    pc = "done" =>
        ((arg = None \/ Residual = <<>> \/ ~IsFloatLiteral(NormalisedAmount(Residual)))
            => ret = NoNumber)

OnlyDigitsAndPeriods(s) ==
    /\ s # None
    /\ \A k \in 1..Len(s) : IsDigit(s[k]) \/ s[k] = "."
    /\ str_count(s, ".") >= 1
    /\ \E k \in 1..Len(s) : IsDigit(s[k])

\* C10: for an amount string of digits and one or more periods (no comma),
\* clean_number returns the integer formed by deleting every period.
C10_PeriodsAreThousands ==
    (pc = "done" /\ OnlyDigitsAndPeriods(arg))
        => ret = [null |-> FALSE, m |-> DigitsValue(digits_only(arg)), e |-> 0]

\* '762.300' gives 762300
C10_Witness ==
    /\ pc = "done"
    /\ arg = <<"7", "6", "2", ".", "3", "0", "0">>
    /\ ret = [null |-> FALSE, m |-> 762300, e |-> 0]

-----------------------------------------------------------------------------
(* pad_npwp_to_22 *)

NpwpWidth == 22

\* (A variant that cuts the result to the last 22 characters, as a bug would.)
pad_npwp_truncating(npwp_raw) ==
    IF npwp_raw = None \/ npwp_raw = <<>> THEN <<>>
    ELSE LET padded == zfill(digits_only(npwp_raw), NpwpWidth)
         IN  SubSeq(padded, Len(padded) - NpwpWidth + 1, Len(padded))

pad_npwp_to_22(npwp_raw) ==
    IF npwp_raw = None \/ npwp_raw = <<>> THEN <<>>      \* `if not npwp_raw`
    ELSE zfill(digits_only(npwp_raw), NpwpWidth)

MaxNpwpLen == 3

NpwpAlphabet == {"0", "7", ".", "x"}

ExampleNpwps ==
    { <<"1", "2", "3", "4">>,                                  \* '1234'
      <<"0", "1", ".", "2", "3", "4", ".", "5", "6", "7", ".", "8", "-",
        "9", "0", "1", ".", "0", "0", "0">>,                   \* '01.234.567.8-901.000'
      <<"1", "2", "3", "4", "5", "6", "7", "8", "9", "0", "1", "2",
        "3", "4", "5", "6", "7", "8", "9", "0", "1", "2">>,    \* 22 digits
      <<"1", "2", "3", "4", "5", "6", "7", "8", "9", "0", "1", "2",
        "3", "4", "5", "6", "7", "8", "9", "0", "1", "2", "3", "-", "4">>,  \* 24 digits
      <<"a", "b", "c">>,
      None }

NpwpInputs == StringsUpTo(NpwpAlphabet, MaxNpwpLen) \cup ExampleNpwps

InitPad ==
    /\ pc = "call"
    /\ arg \in NpwpInputs
    /\ ret = None
    /\ BatchIdle

Call_pad_npwp_to_22 ==
    /\ pc = "call"
    /\ ret' = pad_npwp_to_22(arg)
    /\ pc' = "done"
    /\ UNCHANGED <<arg, batch_vars>>

NextPad == Call_pad_npwp_to_22

SpecPad == InitPad /\ [][NextPad]_vars

Max(a, b) == IF a >= b THEN a ELSE b

\* r is the digits of s, in order, behind as many '0' as bring it to 22
IsZeroPadded(r, s) ==
    LET d == digits_only(s)
    IN  /\ Len(r) = Max(NpwpWidth, Len(d))
        /\ AllDigits(r)
        /\ SubSeq(r, Len(r) - Len(d) + 1, Len(r)) = d
        /\ \A k \in 1..(Len(r) - Len(d)) : r[k] = "0"

\* C6, as stated: for every input string, the empty one included,
\* pad_npwp_to_22 returns the digits of the input left-padded with '0' to
\* length 22 and never truncated.
C6_AlwaysPadded ==
    (pc = "done" /\ arg # None) => IsZeroPadded(ret, arg)

\* C6, amended: the same for every non-empty input string; the empty string
\* (and None) gives the empty string.
C6_PaddedUnlessEmpty ==
    pc = "done" =>
        IF arg = None \/ arg = <<>> THEN ret = <<>> ELSE IsZeroPadded(ret, arg)

\* '1234' gives 18 zeros followed by '1234'
C6_Witness ==
    /\ pc = "done"
    /\ arg = <<"1", "2", "3", "4">>
    /\ ret = <<"0", "0", "0", "0", "0", "0", "0", "0", "0", "0", "0", "0", "0", "0",
               "0", "0", "0", "0", "1", "2", "3", "4">>

-----------------------------------------------------------------------------
(* The regular expressions of the source, matched as Python's re matches    *)
(* them: the leftmost match, and among the matches at one position the one *)
(* a backtracking matcher finds first (greedy repetitions, alternatives in *)
(* order).  An expression is a tree; Matches gives, for a start state, the  *)
(* end states of every way to match, in the order of preference.           *)

Chars(cs) == [t |-> "set", neg |-> FALSE, cs |-> cs]
NotChars(cs) == [t |-> "set", neg |-> TRUE, cs |-> cs]
Cat(ns) == [t |-> "cat", ns |-> ns]
Lit(str) == Cat([k \in 1..Len(str) |-> Chars({str[k]})])
Alt(ns) == [t |-> "alt", ns |-> ns]
Rep(n, lo, hi) == [t |-> "rep", n |-> n, lo |-> lo, hi |-> hi]    \* hi = -1: no limit
Star(n) == Rep(n, 0, -1)
Plus(n) == Rep(n, 1, -1)
Opt(n) == Rep(n, 0, 1)
Group(k, n) == [t |-> "grp", k |-> k, n |-> n]
EndOfString == [t |-> "eol"]            \* $ (the lines searched hold no line break)
WordBoundary == [t |-> "wordb"]         \* \b

AnyChar == NotChars({"\n"})             \* .
SpaceChar == Chars(SpaceSet)            \* \s
DigitChar == Chars(DigitSet)            \* \d

IsWordChar(c) == IsDigit(c) \/ IsAlpha(c) \/ c = "_"

NoGroup == <<-1, -1>>
NoGroups == <<NoGroup, NoGroup, NoGroup>>

AtWordBoundary(s, pos) ==
    LET before == pos >= 1 /\ IsWordChar(s[pos])
        after == pos < Len(s) /\ IsWordChar(s[pos + 1])
    IN  before # after

RECURSIVE Matches(_, _, _)
RECURSIVE MatchesEach(_, _, _)
RECURSIVE MatchesCat(_, _, _, _)
RECURSIVE MatchesAlt(_, _, _, _)
RECURSIVE MatchesRep(_, _, _, _, _)
RECURSIVE MatchesRepEach(_, _, _, _, _)

\* the matches of node from each of the states sts, in order
MatchesEach(node, s, sts) ==
    IF sts = <<>> THEN <<>>
    ELSE Matches(node, s, Head(sts)) \o MatchesEach(node, s, Tail(sts))

MatchesCat(ns, k, s, sts) ==
    IF k > Len(ns) \/ sts = <<>> THEN sts
    ELSE MatchesCat(ns, k + 1, s, MatchesEach(ns[k], s, sts))

MatchesAlt(ns, k, s, st) ==
    IF k > Len(ns) THEN <<>>
    ELSE Matches(ns[k], s, st) \o MatchesAlt(ns, k + 1, s, st)

MatchesRepEach(n, lo, hi, s, sts) ==
    IF sts = <<>> THEN <<>>
    ELSE MatchesRep(n, lo, hi, s, Head(sts)) \o MatchesRepEach(n, lo, hi, s, Tail(sts))

\* greedy: one more repetition is tried before stopping here
MatchesRep(n, lo, hi, s, st) ==
    (IF hi = 0 THEN <<>>
     ELSE MatchesRepEach(n, lo - 1, hi - 1, s, Matches(n, s, st)))
    \o (IF lo <= 0 THEN <<st>> ELSE <<>>)

Matches(node, s, st) ==
    CASE node.t = "set" ->
            IF st.pos < Len(s) /\ ((s[st.pos + 1] \in node.cs) # node.neg)
            THEN <<[st EXCEPT !.pos = @ + 1]>> ELSE <<>>
      [] node.t = "cat" -> MatchesCat(node.ns, 1, s, <<st>>)
      [] node.t = "alt" -> MatchesAlt(node.ns, 1, s, st)
      [] node.t = "rep" -> MatchesRep(node.n, node.lo, node.hi, s, st)
      [] node.t = "grp" ->
            LET inner == Matches(node.n, s, st)
            IN  [j \in 1..Len(inner) |->
                    [inner[j] EXCEPT !.caps[node.k] = <<st.pos, inner[j].pos>>]]
      [] node.t = "eol" -> IF st.pos = Len(s) THEN <<st>> ELSE <<>>
      [] node.t = "wordb" -> IF AtWordBoundary(s, st.pos) THEN <<st>> ELSE <<>>

NoMatch == [found |-> FALSE, start |-> -1, end |-> -1, caps |-> NoGroups]

\* re.match(re, s): the match at position 0
re_match(re, s) ==
    LET first(ms) ==
            IF ms = <<>> THEN NoMatch
            ELSE [found |-> TRUE, start |-> 0, end |-> ms[1].pos, caps |-> ms[1].caps]
    IN  first(Matches(re, s, [pos |-> 0, caps |-> NoGroups]))

RECURSIVE re_search_from(_, _, _)
re_search_from(re, s, p) ==
    IF p > Len(s) THEN NoMatch
    ELSE LET first(ms) ==
                 IF ms = <<>> THEN re_search_from(re, s, p + 1)
                 ELSE [found |-> TRUE, start |-> p, end |-> ms[1].pos, caps |-> ms[1].caps]
         IN  first(Matches(re, s, [pos |-> p, caps |-> NoGroups]))

\* re.search(re, s)
re_search(re, s) == re_search_from(re, s, 0)

\* re.search(re, s, re.IGNORECASE), re written in lower case: the positions
\* are those of s
re_search_ignorecase(re, s) == re_search_from(re, lower(s), 0)

\* m.group(k) of a match m in s
group(m, s, k) == SubSeq(s, m.caps[k][1] + 1, m.caps[k][2])

-----------------------------------------------------------------------------
(* More string methods. *)

IsLineBreak(c) == c \in {"\n", "\r"}

RECURSIVE splitlines(_)
\* str.splitlines(); a line break between "\r" and "\n" gives an empty line
\* more than Python's, which line 103 drops with the other empty lines
splitlines(text) ==
    IF text = <<>> THEN <<>>
    ELSE IF \E k \in 1..Len(text) : IsLineBreak(text[k])
    THEN LET k == CHOOSE k \in 1..Len(text) :
                     IsLineBreak(text[k]) /\ \A j \in 1..(k - 1) : ~IsLineBreak(text[j])
         IN  <<SubSeq(text, 1, k - 1)>> \o splitlines(SubSeq(text, k + 1, Len(text)))
    ELSE <<text>>

RECURSIVE split(_)
\* str.split(): the words between runs of whitespace
split(s) ==
    LET t == lstrip(s)
    IN  IF t = <<>> THEN <<>>
        ELSE IF \E k \in 1..Len(t) : IsSpace(t[k])
        THEN LET k == CHOOSE k \in 1..Len(t) :
                         IsSpace(t[k]) /\ \A j \in 1..(k - 1) : ~IsSpace(t[j])
             IN  <<SubSeq(t, 1, k - 1)>> \o split(SubSeq(t, k + 1, Len(t)))
        ELSE <<t>>

RECURSIVE join(_, _)
\* sep.join(parts)
join(sep, parts) ==
    IF parts = <<>> THEN <<>>
    ELSE IF Len(parts) = 1 THEN parts[1]
    ELSE parts[1] \o sep \o join(sep, Tail(parts))

\* key in s
contains(s, key) ==
    \E p \in 0..(Len(s) - Len(key)) : SubSeq(s, p + 1, p + Len(key)) = key

\* str.isupper(): some cased character, and no lower-case one
isupper(s) ==
    /\ \E k \in 1..Len(s) : s[k] \in UpperSet
    /\ \A k \in 1..Len(s) : s[k] \notin LowerSet

RECURSIVE str(_)
\* str(n) of an int
str(n) ==
    IF n < 0 THEN <<"-">> \o str(0 - n)
    ELSE IF n < 10 THEN <<Digits[n + 1]>>
    ELSE str(n \div 10) \o <<Digits[(n % 10) + 1]>>

-----------------------------------------------------------------------------
(* datetime.strptime and strftime, in the C locale. *)

MonthAbbreviations ==
    << <<"j", "a", "n">>, <<"f", "e", "b">>, <<"m", "a", "r">>, <<"a", "p", "r">>, <<"m", "a", "y">>, <<"j", "u", "n">>,
       <<"j", "u", "l">>, <<"a", "u", "g">>, <<"s", "e", "p">>, <<"o", "c", "t">>, <<"n", "o", "v">>, <<"d", "e", "c">> >>

MonthNames ==
    << <<"j", "a", "n", "u", "a", "r", "y">>, <<"f", "e", "b", "r", "u", "a", "r", "y">>, <<"m", "a", "r", "c", "h">>, <<"a", "p", "r", "i", "l">>, <<"m", "a", "y">>, <<"j", "u", "n", "e">>,
       <<"j", "u", "l", "y">>, <<"a", "u", "g", "u", "s", "t">>, <<"s", "e", "p", "t", "e", "m", "b", "e", "r">>, <<"o", "c", "t", "o", "b", "e", "r">>, <<"n", "o", "v", "e", "m", "b", "e", "r">>, <<"d", "e", "c", "e", "m", "b", "e", "r">> >>

\* _strptime tries the longer names first
MonthNamesByLength == << 9, 2, 11, 12, 1, 10, 8, 3, 4, 6, 7, 5 >>

\* %d: 3[0-1]|[1-2]\d|0[1-9]|[1-9]| [1-9]
RE_d ==
    Alt(<< Cat(<<Chars({"3"}), Chars({"0", "1"})>>),
           Cat(<<Chars({"1", "2"}), DigitChar>>),
           Cat(<<Chars({"0"}), Chars(DigitSet \ {"0"})>>),
           Chars(DigitSet \ {"0"}),
           Cat(<<Chars({" "}), Chars(DigitSet \ {"0"})>>) >>)

\* %m: 1[0-2]|0[1-9]|[1-9]
RE_m ==
    Alt(<< Cat(<<Chars({"1"}), Chars({"0", "1", "2"})>>),
           Cat(<<Chars({"0"}), Chars(DigitSet \ {"0"})>>),
           Chars(DigitSet \ {"0"}) >>)

\* %Y: \d\d\d\d
RE_Y == Cat(<<DigitChar, DigitChar, DigitChar, DigitChar>>)

\* %b
RE_b == Alt([k \in 1..12 |-> Lit(MonthAbbreviations[k])])

\* %B
RE_B == Alt([k \in 1..12 |-> Lit(MonthNames[MonthNamesByLength[k]])])

\* The formats of lines 149 and 264 as _strptime compiles them: groups 1, 2, 3
\* are the day, the month and the year; white space in a format is \s+.
StrptimeFormats ==
    [ dbY |-> Cat(<<Group(1, RE_d), Plus(SpaceChar), Group(2, RE_b), Plus(SpaceChar), Group(3, RE_Y)>>),
      dBY |-> Cat(<<Group(1, RE_d), Plus(SpaceChar), Group(2, RE_B), Plus(SpaceChar), Group(3, RE_Y)>>),
      dmY_slash |-> Cat(<<Group(1, RE_d), Chars({"/"}), Group(2, RE_m), Chars({"/"}), Group(3, RE_Y)>>),
      Ymd_dash |-> Cat(<<Group(3, RE_Y), Chars({"-"}), Group(2, RE_m), Chars({"-"}), Group(1, RE_d)>>),
      dmY_dash |-> Cat(<<Group(1, RE_d), Chars({"-"}), Group(2, RE_m), Chars({"-"}), Group(3, RE_Y)>>) ]

NoDate == [null |-> TRUE, year |-> 0, month |-> 0, day |-> 0]

IsLeapYear(y) == y % 4 = 0 /\ (y % 100 # 0 \/ y % 400 = 0)

DaysInMonth(y, m) ==
    IF m = 2 THEN (IF IsLeapYear(y) THEN 29 ELSE 28)
    ELSE IF m \in {4, 6, 9, 11} THEN 30 ELSE 31

\* the month a matched month name or number denotes
MonthOf(fmt, word) ==
    IF fmt = "dbY" THEN CHOOSE k \in 1..12 : MonthAbbreviations[k] = word
    ELSE IF fmt = "dBY" THEN CHOOSE k \in 1..12 : MonthNames[k] = word
    ELSE DigitsValue(word)

\* datetime.strptime(raw, fmt), or no date where it raises ValueError
strptime(raw, fmt) ==
    LET date(day, month, year) ==
            IF year >= 1 /\ day <= DaysInMonth(year, month)
            THEN [null |-> FALSE, year |-> year, month |-> month, day |-> day]
            ELSE NoDate
        matched(m, low) ==
            IF ~m.found \/ m.end # Len(raw) THEN NoDate
            ELSE date(DigitsValue(digits_only(group(m, low, 1))),
                      MonthOf(fmt, group(m, low, 2)),
                      DigitsValue(group(m, low, 3)))
        ignorecase(low) == matched(re_match(StrptimeFormats[fmt], low), low)
    IN  ignorecase(lower(raw))

\* dt.strftime("%Y-%m-%d") (glibc does not pad a year below 1000)
strftime(dt) ==
    str(dt.year) \o <<"-">> \o zfill(str(dt.month), 2) \o <<"-">> \o zfill(str(dt.day), 2)

RECURSIVE parse_date(_, _)
\* lines 148-154: the first of the formats that parses raw, or no date
parse_date(raw, fmts) ==
    IF fmts = <<>> THEN NoDate
    ELSE LET try(parsed_) == IF ~parsed_.null THEN parsed_ ELSE parse_date(raw, Tail(fmts))
         IN  try(strptime(raw, Head(fmts)))

LabelledDateFormats == <<"dbY", "dBY", "dmY_slash", "Ymd_dash", "dmY_dash">>

-----------------------------------------------------------------------------
(* extract_fields_from_text.  Line indexes are those of the source plus one; *)
(* index 0 is find_line_containing's None.  extract_after_label's None is   *)
(* the empty string: the source only tests its value for truth.            *)

Separator == Opt(Chars({":", "-"}))      \* [:\-]?

\* (?:invoice\s*(?:no|#)\s*[:\-]?\s*)(.+)$
RE_invoice_no ==
    Cat(<< Lit(<<"i", "n", "v", "o", "i", "c", "e">>), Star(SpaceChar), Alt(<<Lit(<<"n", "o">>), Lit(<<"#">>)>>),
           Star(SpaceChar), Separator, Star(SpaceChar),
           Group(1, Plus(AnyChar)), EndOfString >>)

\* (?:issue\s*date|tanggal\s*faktur)\s*[:\-]?\s*(.+)$
RE_issue_date ==
    Cat(<< Alt(<< Cat(<<Lit(<<"i", "s", "s", "u", "e">>), Star(SpaceChar), Lit(<<"d", "a", "t", "e">>)>>),
                  Cat(<<Lit(<<"t", "a", "n", "g", "g", "a", "l">>), Star(SpaceChar), Lit(<<"f", "a", "k", "t", "u", "r">>)>>) >>),
           Star(SpaceChar), Separator, Star(SpaceChar),
           Group(1, Plus(AnyChar)), EndOfString >>)

\* to\s*[:\-]?\s*(.+)$
RE_to ==
    Cat(<< Lit(<<"t", "o">>), Star(SpaceChar), Separator, Star(SpaceChar),
           Group(1, Plus(AnyChar)), EndOfString >>)

\* npwp|invoice|issue date|tanggal|total|vat|ppn
RE_next_label ==
    Alt(<< Lit(<<"n", "p", "w", "p">>), Lit(<<"i", "n", "v", "o", "i", "c", "e">>), Lit(<<"i", "s", "s", "u", "e", " ", "d", "a", "t", "e">>), Lit(<<"t", "a", "n", "g", "g", "a", "l">>),
           Lit(<<"t", "o", "t", "a", "l">>), Lit(<<"v", "a", "t">>), Lit(<<"p", "p", "n">>) >>)

\* invoice|revcomm|to
RE_not_a_name == Alt(<< Lit(<<"i", "n", "v", "o", "i", "c", "e">>), Lit(<<"r", "e", "v", "c", "o", "m", "m">>), Lit(<<"t", "o">>) >>)

\* npwp(?:\/nik)?\s*[:\-]?\s*([0-9\.\- ]+)
RE_npwp ==
    Cat(<< Lit(<<"n", "p", "w", "p">>), Opt(Lit(<<"/", "n", "i", "k">>)), Star(SpaceChar), Separator, Star(SpaceChar),
           Group(1, Plus(Chars(DigitSet \cup {".", "-", " "}))) >>)

\* (\d{8,16})
RE_long_digits == Group(1, Rep(DigitChar, 8, 16))

\* sub\s*total|subtotal|harga satuan, dpp|sub total
RE_subtotal ==
    Alt(<< Cat(<<Lit(<<"s", "u", "b">>), Star(SpaceChar), Lit(<<"t", "o", "t", "a", "l">>)>>), Lit(<<"s", "u", "b", "t", "o", "t", "a", "l">>),
           Lit(<<"h", "a", "r", "g", "a", " ", "s", "a", "t", "u", "a", "n", ",", " ", "d", "p", "p">>), Lit(<<"s", "u", "b", " ", "t", "o", "t", "a", "l">>) >>)

\* ([0-9\.,]+)
RE_amount == Group(1, Plus(Chars(DigitSet \cup {".", ","})))

\* \b(vat|ppn)\b
RE_vat == Cat(<< WordBoundary, Group(1, Alt(<<Lit(<<"v", "a", "t">>), Lit(<<"p", "p", "n">>)>>)), WordBoundary >>)

\* \b(total amount|total)\b
RE_total ==
    Cat(<< WordBoundary, Group(1, Alt(<<Lit(<<"t", "o", "t", "a", "l", " ", "a", "m", "o", "u", "n", "t">>), Lit(<<"t", "o", "t", "a", "l">>)>>)), WordBoundary >>)

\* ([0-9]{1,3}(?:[.,]\d{3})+)
RE_grouped_amount ==
    Group(1, Cat(<< Rep(DigitChar, 1, 3),
                    Plus(Cat(<<Chars({".", ","}), DigitChar, DigitChar, DigitChar>>)) >>))

\* ([0-3]?\d\s+[A-Za-z]{3,9}\s+\d{4})
RE_any_date ==
    Group(1, Cat(<< Opt(Chars({"0", "1", "2", "3"})), DigitChar, Plus(SpaceChar),
                    Rep(Chars(UpperSet \cup LowerSet), 3, 9), Plus(SpaceChar),
                    Rep(DigitChar, 4, 4) >>))

\* line 103: the stripped, non-empty lines
text_lines(text) ==
    LET all == splitlines(text)
    IN  SelectSeq([k \in 1..Len(all) |-> strip(all[k])], LAMBDA ln : ln # <<>>)

\* lines 108-114, over the lower-case copy of the lines
find_line_containing(low_lines, key_variants) ==
    IF \E k \in 1..Len(low_lines) : \E v \in 1..Len(key_variants) :
            contains(low_lines[k], key_variants[v])
    THEN CHOOSE k \in 1..Len(low_lines) :
            /\ \E v \in 1..Len(key_variants) : contains(low_lines[k], key_variants[v])
            /\ \A j \in 1..(k - 1) : \A v \in 1..Len(key_variants) :
                    ~contains(low_lines[j], key_variants[v])
    ELSE 0

\* lines 116-122
extract_after_label(line, label_regex) ==
    LET after(m) == IF m.found THEN strip(group(m, line, 1)) ELSE <<>>
    IN  after(re_search_ignorecase(label_regex, line))

\* lines 124-135
extract_invoice_no(lines, low_lines) ==
    LET value(same_line, parts) ==
            IF same_line # <<>> THEN same_line
            ELSE IF Len(parts) > 1 THEN join(<<" ">>, Tail(parts))
            ELSE <<>>
        at(idx) ==
            IF idx = 0 THEN <<>>
            ELSE strip(value(extract_after_label(lines[idx], RE_invoice_no), split(lines[idx])))
    IN  at(find_line_containing(low_lines,
               << <<"i", "n", "v", "o", "i", "c", "e", " ", "n", "o">>, <<"i", "n", "v", "o", "i", "c", "e", " ", "n", "o", ":">>, <<"i", "n", "v", "o", "i", "c", "e", "#">>, <<"i", "n", "v", "o", "i", "c", "e", " ", "#">>, <<"i", "n", "v", "o", "i", "c", "e">> >>))

\* lines 146-155: a parsed date as YYYY-MM-DD, and the raw text otherwise
normalise_date(raw) ==
    LET format(parsed_) == IF ~parsed_.null THEN strftime(parsed_) ELSE raw
    IN  format(parse_date(raw, LabelledDateFormats))

\* lines 137-155
extract_issue_date(lines, low_lines) ==
    LET normalised(val) == IF val # <<>> THEN normalise_date(val) ELSE <<>>
        value(idx, same_line) ==
            IF same_line = <<>> /\ idx + 1 <= Len(lines)
            THEN strip(lines[idx + 1]) ELSE same_line
        at(idx) ==
            IF idx = 0 THEN <<>>
            ELSE normalised(value(idx, extract_after_label(lines[idx], RE_issue_date)))
    IN  at(find_line_containing(low_lines,
               << <<"i", "s", "s", "u", "e", " ", "d", "a", "t", "e">>, <<"t", "a", "n", "g", "g", "a", "l", " ", "f", "a", "k", "t", "u", "r">>, <<"i", "s", "s", "u", "e", " ", "d", "a", "t", "e", ":">> >>))

RECURSIVE address_lines(_, _)
\* lines 166-173, 180-187: the lines from j up to the next label
address_lines(lines, j) ==
    IF j > Len(lines) THEN <<>>
    ELSE IF re_search_ignorecase(RE_next_label, lines[j]).found THEN <<>>
    ELSE <<lines[j]>> \o address_lines(lines, j + 1)

RECURSIVE first_upper_line(_, _)
\* lines 191-194, over lines[:10]
first_upper_line(lines, k) ==
    IF k > Len(lines) \/ k > 10 THEN <<>>
    ELSE IF isupper(lines[k]) /\ Len(lines[k]) > 3
            /\ ~re_search_ignorecase(RE_not_a_name, lines[k]).found
    THEN lines[k]
    ELSE first_upper_line(lines, k + 1)

\* lines 157-194: <<buyer_name, buyer_address>>
extract_buyer(lines, low_lines) ==
    LET labelled(idx, val) ==
            IF val # <<>>
            THEN << strip(val), strip(join(<<" ">>, address_lines(lines, idx + 1))) >>
            ELSE IF idx + 1 <= Len(lines)
            THEN << strip(lines[idx + 1]),
                    strip(join(<<" ">>, address_lines(lines, idx + 2))) >>
            ELSE << <<>>, <<>> >>
        at(idx) ==
            IF idx = 0 THEN << first_upper_line(lines, 1), <<>> >>
            ELSE labelled(idx, extract_after_label(lines[idx], RE_to))
    IN  at(find_line_containing(low_lines, << <<"t", "o", " ", ":">>, <<"t", "o", ":">>, <<"t", "o", " ">> >>))

NpwpDigits == 16

\* lines 205-208, 214-217: the digits, left-padded with '0' to 16.
\* (A variant that leaves the non-digits in, as a bug would.)
npwp_unstripped(val) == IF Len(val) < NpwpDigits THEN zfill(val, NpwpDigits) ELSE val

npwp_digits(val) ==
    LET digits == digits_only(val)
    IN  IF Len(digits) < NpwpDigits THEN zfill(digits, NpwpDigits) ELSE digits

RECURSIVE first_long_digits(_, _)
\* lines 211-218
first_long_digits(lines, k) ==
    IF k > Len(lines) THEN <<>>
    ELSE LET found(m, squeezed) ==
                 IF m.found THEN npwp_digits(group(m, squeezed, 1))
                 ELSE first_long_digits(lines, k + 1)
             search(squeezed) == found(re_search(RE_long_digits, squeezed), squeezed)
         IN  search(SelectSeq(lines[k], LAMBDA c : ~IsSpace(c)))

\* lines 196-218
extract_npwp(lines, low_lines) ==
    LET padded(val) == IF val # <<>> THEN npwp_digits(val) ELSE <<>>
        value(idx, same_line) ==
            IF same_line = <<>> /\ idx + 1 <= Len(lines)
            THEN strip(lines[idx + 1]) ELSE same_line
        at(idx) ==
            IF idx = 0 THEN first_long_digits(lines, 1)
            ELSE padded(value(idx, extract_after_label(lines[idx], RE_npwp)))
    IN  at(find_line_containing(low_lines, << <<"n", "p", "w", "p">>, <<"n", "p", "w", "p", "/", "n", "i", "k">>, <<"n", "p", "w", "p", " ", ":">> >>))

NoAmounts == [subtotal |-> NoNumber, vat |-> NoNumber, total |-> NoNumber]

\* lines 223-247: one line of the bottom-up scan
scan_line(lines, k, out) ==
    LET total_line(val, m2) ==
            [out EXCEPT !.total = val,
                        !.subtotal = IF out.subtotal.null /\ m2.found
                                     THEN clean_number(group(m2, lines[k - 1], 1))
                                     ELSE @]
        scan(ln, low, m) ==
            IF out.subtotal.null /\ re_search(RE_subtotal, low).found /\ m.found
            THEN [out EXCEPT !.subtotal = clean_number(group(m, ln, 1))]
            ELSE IF out.vat.null /\ re_search(RE_vat, low).found /\ m.found
            THEN [out EXCEPT !.vat = clean_number(group(m, ln, 1))]
            ELSE IF out.total.null /\ re_search(RE_total, low).found /\ m.found
            THEN total_line(clean_number(group(m, ln, 1)),
                            IF k - 1 >= 1 THEN re_search(RE_amount, lines[k - 1]) ELSE NoMatch)
            ELSE out
    IN  scan(lines[k], lower(lines[k]), re_search(RE_amount, lines[k]))

RECURSIVE scan_amounts(_, _, _)
\* lines 222-247: from the last line up
scan_amounts(lines, k, out) ==
    IF k < 1 THEN out ELSE scan_amounts(lines, k - 1, scan_line(lines, k, out))

RECURSIVE first_grouped_amount(_, _)
\* lines 252-256
first_grouped_amount(lines, k) ==
    IF k > Len(lines) THEN NoNumber
    ELSE LET found(m) ==
                 IF m.found THEN clean_number(group(m, lines[k], 1))
                 ELSE first_grouped_amount(lines, k + 1)
         IN  found(re_search(RE_grouped_amount, lines[k]))

\* lines 220-256
extract_amounts(lines) ==
    LET fallback(out) ==
            IF out.subtotal.null THEN [out EXCEPT !.subtotal = first_grouped_amount(lines, 1)]
            ELSE out
    IN  fallback(scan_amounts(lines, Len(lines), NoAmounts))

\* lines 263-269: the match as YYYY-MM-DD when "%d %b %Y" parses it, and the
\* matched text otherwise.
\* (A variant that leaves the field empty when it does not parse.)
fallback_date_or_empty(found_text) ==
    LET format(dt) == IF ~dt.null THEN strftime(dt) ELSE <<>>
    IN  format(strptime(found_text, "dbY"))

fallback_date(found_text) ==
    LET format(dt) == IF ~dt.null THEN strftime(dt) ELSE found_text
    IN  format(strptime(found_text, "dbY"))

RECURSIVE first_date_anywhere(_, _)
\* lines 260-269, over lines[:20]
first_date_anywhere(lines, k) ==
    IF k > Len(lines) \/ k > 20 THEN <<>>
    ELSE LET found(m) ==
                 IF m.found THEN fallback_date(group(m, lines[k], 1))
                 ELSE first_date_anywhere(lines, k + 1)
         IN  found(re_search(RE_any_date, lines[k]))

extract_fields_from_text(text) ==
    LET out(buyer, npwp, issue_date, invoice_no, amounts) ==
            [ buyer_name |-> buyer[1],
              buyer_address |-> buyer[2],
              npwp |-> npwp,
              issue_date |-> issue_date,
              invoice_no |-> invoice_no,
              subtotal |-> amounts.subtotal,
              vat |-> amounts.vat,
              total |-> amounts.total ]
        date(lines, labelled_date) ==
            IF labelled_date # <<>> THEN labelled_date ELSE first_date_anywhere(lines, 1)
        extract(lines, low_lines) ==
            out(extract_buyer(lines, low_lines),
                extract_npwp(lines, low_lines),
                date(lines, extract_issue_date(lines, low_lines)),
                extract_invoice_no(lines, low_lines),
                extract_amounts(lines))
        lowered(lines) == extract(lines, [k \in 1..Len(lines) |-> lower(lines[k])])
    IN  lowered(text_lines(text))

-----------------------------------------------------------------------------
(* extract_fields_from_text called on documents that hold a date or a       *)
(* labelled NPWP.                                                          *)

DateDays == { <<"0", "7">>, <<"7">>, <<"3", "1">> }

DateMonths ==
    { <<"O", "c", "t">>, <<"O", "c", "t", "o", "b", "e", "r">>, <<"O", "k", "t", "o", "b", "e", "r">>, <<"O", "K", "T">>, <<"A", "g", "u", "s", "t", "u", "s">>, <<"M", "e", "i">>, <<"S", "e", "p">>, <<"S", "e", "p", "t">>,
      <<"S", "e", "p", "t", "e", "m", "b", "e", "r">>, <<"F", "e", "b">>, <<"F", "e", "b", "r", "u", "a", "r", "i">>, <<"D", "e", "s", "e", "m", "b", "e", "r">>, <<"D", "e", "c">> }

DateYears == { <<"2", "0", "2", "5">>, <<"2", "0", "2", "4">> }

DateText(d, mon, y) == d \o <<" ">> \o mon \o <<" ">> \o y

\* What precedes the date: a label on the same line, a label on the line
\* before, or no label at all (the search of lines 259-269).
LabelledDatePrefixes == { <<"I", "s", "s", "u", "e", " ", "D", "a", "t", "e", ":", " ">>, <<"T", "a", "n", "g", "g", "a", "l", " ", "F", "a", "k", "t", "u", "r", "\n">> }
UnlabelledDatePrefixes == { <<"J", "a", "k", "a", "r", "t", "a", ",", " ">> }

DateDocuments ==
    { p \o DateText(d, mon, y) :
        p \in LabelledDatePrefixes \cup UnlabelledDatePrefixes,
        d \in DateDays, mon \in DateMonths, y \in DateYears }

MaxNpwpValueLen == 3

NpwpValueAlphabet == {"0", "7", ".", "-", " "}

ExampleNpwpValues ==
    { <<"0", "1", ".", "2", "3", "4", ".", "5", "6", "7", ".", "8", "-", "9", "0", "1", ".", "0", "0", "0">>,
      <<"0", "0", "1", "2", "3", "4", "5", "6", "7", "8", "9", "0", "1", "2", "3", "4">>,
      <<"1", "2", ".", "3", "4", "5", ".", "6", "7", "8", ".", "9", "-", "0", "1", "2", ".", "3", "4", "5", ".", "6", "7", "8">> }

NpwpValues == StringsUpTo(NpwpValueAlphabet, MaxNpwpValueLen) \cup ExampleNpwpValues

NpwpLabels == { <<"N", "P", "W", "P", " ", ":", " ">>, <<"N", "P", "W", "P", "/", "N", "I", "K", ":", " ">>, <<"N", "P", "W", "P", "\n">>, <<"N", "o", ".", " ", "N", "P", "W", "P", "-">> }

NpwpDocuments == { l \o v : l \in NpwpLabels, v \in NpwpValues }

NoFields ==
    [ buyer_name |-> <<>>, buyer_address |-> <<>>, npwp |-> <<>>, issue_date |-> <<>>,
      invoice_no |-> <<>>, subtotal |-> NoNumber, vat |-> NoNumber, total |-> NoNumber ]

InitExtract ==
    /\ pc = "call"
    /\ arg \in DateDocuments \cup NpwpDocuments
    /\ ret = NoFields
    /\ BatchIdle

Call_extract_fields_from_text ==
    /\ pc = "call"
    /\ ret' = extract_fields_from_text(arg)
    /\ pc' = "done"
    /\ UNCHANGED <<arg, batch_vars>>

NextExtract == Call_extract_fields_from_text

SpecExtract == InitExtract /\ [][NextExtract]_vars

StartsWith(s, p) == Len(s) >= Len(p) /\ SubSeq(s, 1, Len(p)) = p

\* The month tokens Python reads in the C locale: the English abbreviations
\* under %b, the English names under %B.
EnglishAbbreviations == { <<"O", "c", "t">>, <<"S", "e", "p">>, <<"F", "e", "b">>, <<"D", "e", "c">> }
EnglishNames == { <<"O", "c", "t", "o", "b", "e", "r">>, <<"S", "e", "p", "t", "e", "m", "b", "e", "r">> }

\* Lines 149-153 try %b and %B on a labelled date; line 264 tries %b alone.
MonthRecognised(prefix, mon) ==
    \/ mon \in EnglishAbbreviations
    \/ prefix \in LabelledDatePrefixes /\ mon \in EnglishNames

\* C5, as stated: when the month token of the date text found is not
\* recognised, the date field is left empty, on the labelled path and on the
\* fallback path.
C5_UnresolvedDateIsEmpty ==
    pc = "done" =>
        \A p \in LabelledDatePrefixes \cup UnlabelledDatePrefixes :
        \A d \in DateDays : \A mon \in DateMonths : \A y \in DateYears :
            (arg = p \o DateText(d, mon, y) /\ ~MonthRecognised(p, mon))
                => ret.issue_date = <<>>

\* C5, amended: when the month token of the date text found is not
\* recognised, the date field holds that date text, unchanged: neither empty
\* nor a guessed or normalised date, on the labelled path and on the fallback
\* path.
C5_UnresolvedDateIsKeptRaw ==
    pc = "done" =>
        \A p \in LabelledDatePrefixes \cup UnlabelledDatePrefixes :
        \A d \in DateDays : \A mon \in DateMonths : \A y \in DateYears :
            (arg = p \o DateText(d, mon, y) /\ ~MonthRecognised(p, mon))
                => ret.issue_date = DateText(d, mon, y)

\* 'Issue Date: 07 Oktober 2025' gives '07 Oktober 2025'
C5_Witness ==
    /\ pc = "done"
    /\ arg = <<"I", "s", "s", "u", "e", " ", "D", "a", "t", "e", ":", " ", "0", "7", " ", "O", "k", "t", "o", "b", "e", "r", " ", "2", "0", "2", "5">>
    /\ ret.issue_date = <<"0", "7", " ", "O", "k", "t", "o", "b", "e", "r", " ", "2", "0", "2", "5">>

\* the labelled NPWP value of a document of NpwpDocuments
LabelledNpwp(label) == SubSeq(arg, Len(label) + 1, Len(arg))

\* C7, as stated: the buyer tax id is exactly the digits of the labelled
\* value, in order, nothing added.
C7_NpwpIsTheDigits ==
    pc = "done" =>
        \A l \in NpwpLabels :
            (StartsWith(arg, l) /\ strip(LabelledNpwp(l)) # <<>>)
                => ret.npwp = digits_only(LabelledNpwp(l))

\* r is d behind as many '0' as bring it to 16 characters
IsPaddedTo16(r, d) ==
    /\ Len(r) = Max(NpwpDigits, Len(d))
    /\ SubSeq(r, Len(r) - Len(d) + 1, Len(r)) = d
    /\ \A k \in 1..(Len(r) - Len(d)) : r[k] = "0"

\* C7, amended: the buyer tax id is the digits of the labelled value (a value
\* of digits, periods, hyphens and spaces), in order, every other character
\* stripped, left-padded with '0' to 16 characters when they are fewer.
C7_NpwpIsTheDigitsPadded ==
    pc = "done" =>
        \A l \in NpwpLabels :
            (StartsWith(arg, l) /\ strip(LabelledNpwp(l)) # <<>>)
                => IsPaddedTo16(ret.npwp, digits_only(LabelledNpwp(l)))

\* 'NPWP : 01.234.567.8-901.000' gives '0012345678901000'
C7_Witness ==
    /\ pc = "done"
    /\ arg = <<"N", "P", "W", "P", " ", ":", " ", "0", "1", ".", "2", "3", "4", ".", "5", "6", "7", ".", "8", "-", "9", "0", "1", ".", "0", "0", "0">>
    /\ ret.npwp = <<"0", "0", "1", "2", "3", "4", "5", "6", "7", "8", "9", "0", "1", "0", "0", "0">>

-----------------------------------------------------------------------------
(* build_excel_and_xml.  A cell that holds an int or '' is a record; the     *)
(* columns and tags are named as in the source, '_' standing for ' ' and    *)
(* '/'.  The sheets are written, and the TaxInvoice elements appended, in   *)
(* the order of the rows.                                                  *)

SELLER_ID_TKU_DEFAULT == <<"0", "6", "1", "8", "5", "9", "5", "8", "1", "3", "0", "1", "2", "0", "0", "0", "0", "0", "0", "0", "0", "0">>

Blank == [blank |-> TRUE, n |-> 0]              \* ""
IntCell(n) == [blank |-> FALSE, n |-> n]

\* str(cell)
cell_text(c) == IF c.blank THEN <<>> ELSE str(c.n)

\* round(num / den) for den > 0: Python rounds a tie to the even neighbour.
\* The doubles of the source give the same integer for the amounts of the
\* model (an integer or two-decimal amount below 10^9 is never closer to a
\* tie than the error of (11.0/12.0) * dpp, except on the tie itself, which
\* the product yields exactly).
pyround(num, den) ==
    LET q == num \div den
        r == num % den
    IN  IF 2 * r > den THEN q + 1
        ELSE IF 2 * r < den THEN q
        ELSE IF q % 2 = 0 THEN q ELSE q + 1

\* int(round(x)) of a float x
int_round(x) == pyround(x.m, Pow10(x.e))

\* int(round(r.get(key, 0))) if r.get(key) is not None else ""
int_or_blank(x) == IF x.null THEN Blank ELSE IntCell(int_round(x))

\* line 315: r.get("subtotal") or 0.0
dpp_of(r) == IF r.subtotal.null \/ r.subtotal.m = 0 THEN Decimal(0, 0) ELSE r.subtotal

\* line 317: round((11.0/12.0) * dpp)
dpp_nilai_lain_of(dpp) == pyround(11 * dpp.m, 12 * Pow10(dpp.e))

\* line 319: round(dpp_nilai_lain * 0.12), from the rounded DPP Nilai Lain.
\* (A variant that takes 12% of the unrounded 11/12 of the tax base.)
ppn_from_dpp(dpp, dpp_nilai_lain) == pyround(11 * dpp.m, 100 * Pow10(dpp.e))

ppn_of(dpp, dpp_nilai_lain) == pyround(12 * dpp_nilai_lain, 100)

\* lines 292-311
faktur_row_of(idx, r) ==
    [ Baris |-> idx,
      Jenis_Faktur |-> <<"N", "o", "r", "m", "a", "l">>,
      Kode_Transaksi |-> <<"0", "4">>,
      ID_TKU_Penjual |-> SELLER_ID_TKU_DEFAULT,
      Jenis_ID_Pembeli |-> <<"T", "I", "N">>,
      Negara_Pembeli |-> <<"I", "D", "N">>,
      Email_Pembeli |-> <<>>,
      ID_TKU_Pembeli |-> pad_npwp_to_22(r.npwp),
      Nama_Pembeli |-> r.buyer_name,
      Alamat_Pembeli |-> r.buyer_address,
      NPWP_Pembeli |-> r.npwp,
      Tanggal_Faktur |-> r.issue_date,
      Invoice_No |-> r.invoice_no,
      Referensi |-> <<>>,
      Total_Amount |-> int_or_blank(r.total),
      DPP |-> int_or_blank(r.subtotal),
      PPN |-> int_or_blank(r.vat) ]

\* lines 314-336
detail_row_of(idx, r) ==
    LET dpp == dpp_of(r)
        dpp_nilai_lain == dpp_nilai_lain_of(dpp)
        ppn == ppn_of(dpp, dpp_nilai_lain)
    IN  [ Baris |-> idx,
          Barang_Jasa |-> <<"B">>,
          Kode_Barang_Jasa |-> <<"0", "0", "0", "0", "0", "0">>,
          Nama_Barang_Jasa |-> <<"M", "i", "i", "T", "e", "l", " ", "S", "u", "b", "s", "c", "r", "i", "p", "t", "i", "o", "n">>,
          Nama_Satuan_Ukur |-> <<"U", "M", ".", "0", "0", "3", "3">>,
          Harga_Satuan |-> int_or_blank(r.subtotal),
          Jumlah_Barang_Jasa |-> IntCell(1),
          Total_Diskon |-> IntCell(0),
          DPP |-> IntCell(int_round(dpp)),
          DPP_Nilai_Lain |-> IntCell(dpp_nilai_lain),
          Tarif_PPN |-> IntCell(12),
          PPN |-> IntCell(ppn),
          Tarif_PPnBM |-> IntCell(0),
          PPnBM |-> IntCell(0) ]

\* lines 360-393: one TaxInvoice element, its only GoodService within
tax_invoice_of(fr, dr) ==
    [ TaxInvoiceDate |-> fr.Tanggal_Faktur,
      TaxInvoiceOpt |-> fr.Jenis_Faktur,
      TrxCode |-> fr.Kode_Transaksi,
      AddInfo |-> <<>>,
      CustomDoc |-> <<>>,
      RefDesc |-> <<>>,
      FacilityStamp |-> <<>>,
      SellerIDTKU |-> fr.ID_TKU_Penjual,
      BuyerTin |-> fr.ID_TKU_Pembeli,
      BuyerDocument |-> fr.Jenis_ID_Pembeli,
      BuyerCountry |-> fr.Negara_Pembeli,
      BuyerDocumentNumber |-> fr.NPWP_Pembeli,
      BuyerName |-> fr.Nama_Pembeli,
      BuyerAdress |-> fr.Alamat_Pembeli,
      BuyerEmail |-> fr.Email_Pembeli,
      BuyerIDTKU |-> fr.ID_TKU_Pembeli,
      GoodService |->
        [ Opt |-> dr.Barang_Jasa,
          Code |-> dr.Kode_Barang_Jasa,
          Name |-> dr.Nama_Barang_Jasa,
          Unit |-> dr.Nama_Satuan_Ukur,
          Price |-> cell_text(dr.Harga_Satuan),
          Qty |-> cell_text(dr.Jumlah_Barang_Jasa),
          TotalDiscount |-> cell_text(dr.Total_Diskon),
          TaxBase |-> cell_text(dr.DPP),
          OtherTaxBase |-> cell_text(dr.DPP_Nilai_Lain),
          VATRate |-> cell_text(dr.Tarif_PPN),
          VAT |-> cell_text(dr.PPN),
          STLGRate |-> cell_text(dr.Tarif_PPnBM),
          STLG |-> cell_text(dr.PPnBM) ] ]

\* lines 290-337: the rows in the order of enumerate(parsed_rows, start=1).
\* (A variant that numbers and places the rows from the last record back.)
faktur_rows_reversed(parsed_rows) ==
    [k \in 1..Len(parsed_rows) |-> faktur_row_of(k, parsed_rows[Len(parsed_rows) + 1 - k])]

faktur_rows_of(parsed_rows) ==
    [k \in 1..Len(parsed_rows) |-> faktur_row_of(k, parsed_rows[k])]

detail_rows_of(parsed_rows) ==
    [k \in 1..Len(parsed_rows) |-> detail_row_of(k, parsed_rows[k])]

\* lines 359-393: zip(faktur_rows, detail_rows)
tax_invoices_of(frs, drs) ==
    [k \in 1..(IF Len(frs) <= Len(drs) THEN Len(frs) ELSE Len(drs)) |->
        tax_invoice_of(frs[k], drs[k])]

\* build_excel_and_xml(parsed_rows): both sheets and the XML list
build_excel_and_xml(parsed_rows) ==
    /\ faktur_rows' = faktur_rows_of(parsed_rows)
    /\ detail_rows' = detail_rows_of(parsed_rows)
    /\ xml_invoices' = tax_invoices_of(faktur_rows', detail_rows')

-----------------------------------------------------------------------------
(* The script: the upload, the processing loop, the preview and the button. *)
(* An uploaded file is its name, the text of its pages as pdfplumber gives  *)
(* it, and the call of the loop body that raises on it, if any.  A click on *)
(* the button reruns the script over the same upload; the model goes on     *)
(* from the preview instead.                                               *)

\* os.path.splitext(name)[0]
splitext_root(name) ==
    LET sep == str_rfind(name, "/")
        dot == str_rfind(name, ".")
    IN  IF dot > sep /\ \E k \in (sep + 2)..dot : name[k] # "."
        THEN SubSeq(name, 1, dot)
        ELSE name

RECURSIVE pdf_to_text(_)
\* lines 273-279: every page's text, or "", and a line break
pdf_to_text(pages) ==
    IF pages = <<>> THEN <<>>
    ELSE Head(pages) \o <<"\n">> \o pdf_to_text(Tail(pages))

\* lines 424-433: the record of a file that failed
failed_record(up) == [NoFields EXCEPT !.invoice_no = splitext_root(up.name)]

\* lines 414-419: the record of a file that parsed
parsed_record(up) ==
    LET named(parsed_fields) ==
            IF parsed_fields.invoice_no = <<>>
            THEN [parsed_fields EXCEPT !.invoice_no = splitext_root(up.name)]
            ELSE parsed_fields
    IN  named(extract_fields_from_text(pdf_to_text(up.pages)))

\* lines 413-433: one pass of the loop body.
\* (A variant whose except clause appends nothing.)
parsed_after_skipping(parsed_rows, up) ==
    IF up.raises # "none" THEN parsed_rows ELSE Append(parsed_rows, parsed_record(up))

parsed_after(parsed_rows, up) ==
    IF up.raises # "none"
    THEN Append(parsed_rows, failed_record(up))
    ELSE Append(parsed_rows, parsed_record(up))

MaxFiles == 2

Documents ==
    << \* a full invoice
       [ name |-> <<"i", "n", "v", "-", "a", ".", "p", "d", "f">>,
         pages |-> << <<"I", "n", "v", "o", "i", "c", "e", " ", "N", "o", ":", " ", "I", "N", "V", "-", "0", "0", "1", "\n", "I", "s", "s", "u", "e", " ", "D", "a", "t", "e", ":", " ", "0", "7", " ", "O", "c", "t", " ", "2", "0", "2", "5", "\n", "T", "o", ":", " ", "P", "T", " ", "C", "o", "n", "t", "o", "h", "\n", "J", "l", ".", " ", "S", "a", "t", "u", " ", "N", "o", " ", "1", "\n", "N", "P", "W", "P", " ", ":", " ", "0", "1", ".", "2", "3", "4", ".", "5", "6", "7", ".", "8", "-", "9", "0", "1", ".", "0", "0", "0", "\n", "S", "u", "b", " ", "T", "o", "t", "a", "l", " ", "9", "0", "0", ".", "0", "0", "0", "\n", "V", "A", "T", " ", "9", "9", ".", "0", "0", "0", "\n", "T", "o", "t", "a", "l", " ", "9", "9", "9", ".", "0", "0", "0">> >> ],
       \* no invoice number, no amount, a date in Indonesian, an empty page
       [ name |-> <<"s", "c", "a", "n", ".", "b", ".", "p", "d", "f">>,
         pages |-> << <<"A", "C", "M", "E", " ", "T", "R", "A", "D", "I", "N", "G", "\n", "J", "a", "k", "a", "r", "t", "a", ",", " ", "1", "7", " ", "A", "g", "u", "s", "t", "u", "s", " ", "2", "0", "2", "5">>, <<>> >> ],
       \* amounts of zero
       [ name |-> <<"c", ".", "p", "d", "f">>,
         pages |-> << <<"I", "n", "v", "o", "i", "c", "e", " ", "#", " ", "7", "7", "\n", "S", "u", "b", "t", "o", "t", "a", "l", " ", "0", "\n", "P", "P", "N", " ", "0", "\n", "T", "o", "t", "a", "l", " ", "0">> >> ] >>

\* up.read() or pdf_to_text(raw) may raise on any file
Raises == {"none", "read", "pdf_to_text"}

Files ==
    { [name |-> Documents[d].name, pages |-> Documents[d].pages, raises |-> x] :
        d \in DOMAIN Documents, x \in Raises }

RECURSIVE ListsUpTo(_, _)
\* the lists of at most n elements of S
ListsUpTo(S, n) ==
    IF n = 0 THEN {<<>>}
    ELSE LET shorter == ListsUpTo(S, n - 1)
         IN  shorter \cup {Append(l, x) : l \in {t \in shorter : Len(t) = n - 1}, x \in S}

Init ==
    /\ pc = "start"
    /\ uploaded_files \in ListsUpTo(Files, MaxFiles)
    /\ i = 0
    /\ parsed = <<>>
    /\ faktur_rows = <<>>
    /\ detail_rows = <<>>
    /\ xml_invoices = <<>>
    /\ arg = <<>>
    /\ ret = <<>>

\* lines 449-450
NoUpload ==
    /\ pc = "start"
    /\ uploaded_files = <<>>
    /\ pc' = "idle"
    /\ UNCHANGED <<arg, ret, batch_vars>>

\* lines 408-411
StartParsing ==
    /\ pc = "start"
    /\ uploaded_files # <<>>
    /\ parsed' = <<>>
    /\ i' = 1
    /\ pc' = "parse"
    /\ UNCHANGED <<arg, ret, uploaded_files, faktur_rows, detail_rows, xml_invoices>>

\* lines 412-433: the loop body on the i-th file
ParseFile ==
    /\ pc = "parse"
    /\ i <= Len(uploaded_files)
    /\ parsed' = parsed_after(parsed, uploaded_files[i])
    /\ i' = i + 1
    /\ UNCHANGED <<pc, arg, ret, uploaded_files, faktur_rows, detail_rows, xml_invoices>>

\* lines 435-437
PreviewParsed ==
    /\ pc = "parse"
    /\ i > Len(uploaded_files)
    /\ pc' = "preview"
    /\ UNCHANGED <<arg, ret, batch_vars>>

\* lines 439-448
Generate ==
    /\ pc = "preview"
    /\ build_excel_and_xml(parsed)
    /\ pc' = "done"
    /\ UNCHANGED <<arg, ret, uploaded_files, i, parsed>>

Next == NoUpload \/ StartParsing \/ ParseFile \/ PreviewParsed \/ Generate

Spec == Init /\ [][Next]_vars

-----------------------------------------------------------------------------
(* The batch: claims on the processing loop and on what the button builds   *)
(* from its parsed list.                                                   *)

Zero == IntCell(0)

\* C2, as stated: for every record whose subtotal is null, none of the
\* tax-base fields emitted for it holds the number 0: Faktur 'DPP',
\* DetailFaktur 'DPP', 'DPP Nilai Lain', 'PPN', XML TaxBase, OtherTaxBase, VAT.
C2_UnparsedBaseNeverZero ==
    pc = "done" =>
        \A k \in 1..Len(parsed) :
            parsed[k].subtotal.null =>
                /\ faktur_rows[k].DPP # Zero
                /\ detail_rows[k].DPP # Zero
                /\ detail_rows[k].DPP_Nilai_Lain # Zero
                /\ detail_rows[k].PPN # Zero
                /\ xml_invoices[k].GoodService.TaxBase # <<"0">>
                /\ xml_invoices[k].GoodService.OtherTaxBase # <<"0">>
                /\ xml_invoices[k].GoodService.VAT # <<"0">>

\* the record of a file alone, whatever the rest of the batch does
IsEmptyRecordNamed(r, stem) ==
    /\ r.buyer_name = <<>> /\ r.buyer_address = <<>> /\ r.npwp = <<>>
    /\ r.issue_date = <<>>
    /\ r.subtotal.null /\ r.vat.null /\ r.total.null
    /\ r.invoice_no = stem

AloneRecord(up) ==
    LET alone == parsed_after(<<>>, [up EXCEPT !.raises = "none"])
    IN  alone[1]

\* C3: a file that raises does not block the others.  The loop visits every
\* file (the parsed list holds one record per file visited, and one per
\* uploaded file once the loop is over); the record of a file that raised
\* is empty but for the file name's stem as invoice_no; the record of a file
\* that did not raise is the one it gets in a batch of its own.
C3_FailuresAreContained ==
    /\ pc = "parse" => Len(parsed) = i - 1
    /\ pc \in {"preview", "done"} => Len(parsed) = Len(uploaded_files)
    /\ pc \in {"parse", "preview", "done"} =>
        \A k \in 1..Len(parsed) :
            IF uploaded_files[k].raises # "none"
            THEN IsEmptyRecordNamed(parsed[k], splitext_root(uploaded_files[k].name))
            ELSE parsed[k] = AloneRecord(uploaded_files[k])

\* 'scan.b.pdf' fails to read, then 'inv-a.pdf' parses
C3_Witness ==
    /\ pc = "preview"
    /\ Len(uploaded_files) = 2
    /\ uploaded_files[1].name = <<"s", "c", "a", "n", ".", "b", ".", "p", "d", "f">> /\ uploaded_files[1].raises = "read"
    /\ uploaded_files[2].name = <<"i", "n", "v", "-", "a", ".", "p", "d", "f">> /\ uploaded_files[2].raises = "none"
    /\ parsed[1].invoice_no = <<"s", "c", "a", "n", ".", "b">> /\ parsed[1].issue_date = <<>>
    /\ parsed[2].invoice_no = <<"I", "N", "V", "-", "0", "0", "1">> /\ parsed[2].total = Decimal(999000, 0)

\* what the preview shows of a file: its invoice number, where the text has
\* one, and the stem of its name otherwise
ShownInvoiceNo(up) ==
    IF up.raises # "none" THEN splitext_root(up.name)
    ELSE AloneRecord(up).invoice_no

\* C4: the order of the upload is the order of every output.  With n files
\* uploaded, failed ones among them, the i-th record of the parsed list is
\* that of the i-th file; the Faktur sheet, the DetailFaktur sheet and the
\* XML have n entries each, and the i-th of each, with Baris = i, is made of
\* the i-th record.
C4_OrderIsPreserved ==
    pc = "done" =>
        /\ Len(parsed) = Len(uploaded_files)
        /\ Len(faktur_rows) = Len(uploaded_files)
        /\ Len(detail_rows) = Len(uploaded_files)
        /\ Len(xml_invoices) = Len(uploaded_files)
        /\ \A k \in 1..Len(uploaded_files) :
            /\ parsed[k].invoice_no = ShownInvoiceNo(uploaded_files[k])
            /\ faktur_rows[k].Baris = k
            /\ faktur_rows[k].Invoice_No = parsed[k].invoice_no
            /\ faktur_rows[k].Nama_Pembeli = parsed[k].buyer_name
            /\ faktur_rows[k].Tanggal_Faktur = parsed[k].issue_date
            /\ detail_rows[k].Baris = k
            /\ detail_rows[k].Harga_Satuan = int_or_blank(parsed[k].subtotal)
            /\ xml_invoices[k].BuyerName = parsed[k].buyer_name
            /\ xml_invoices[k].TaxInvoiceDate = parsed[k].issue_date
            /\ xml_invoices[k].GoodService.Price = cell_text(int_or_blank(parsed[k].subtotal))

\* 'c.pdf' fails in pdf_to_text, then 'inv-a.pdf' parses
C4_Witness ==
    /\ pc = "done"
    /\ Len(uploaded_files) = 2
    /\ uploaded_files[1].name = <<"c", ".", "p", "d", "f">> /\ uploaded_files[1].raises = "pdf_to_text"
    /\ uploaded_files[2].name = <<"i", "n", "v", "-", "a", ".", "p", "d", "f">> /\ uploaded_files[2].raises = "none"
    /\ faktur_rows[1].Baris = 1 /\ faktur_rows[1].Invoice_No = <<"c">>
    /\ faktur_rows[2].Baris = 2 /\ faktur_rows[2].Invoice_No = <<"I", "N", "V", "-", "0", "0", "1">>
    /\ faktur_rows[2].Total_Amount = IntCell(999000)
    /\ detail_rows[2].Baris = 2
    /\ xml_invoices[1].BuyerName = <<>>
    /\ xml_invoices[2].BuyerName = <<"P", "T", " ", "C", "o", "n", "t", "o", "h">>

-----------------------------------------------------------------------------
(* build_excel_and_xml called on one record, over a range of tax bases.     *)

MaxTaxBase == 60

TaxBases ==
    {Decimal(b, 0) : b \in 0..MaxTaxBase}
        \cup {Decimal(900000, 0), Decimal(762300, 0), Decimal(123456, 2), NoNumber}

Buyers == { <<>>, <<"P", "T", " ", "C", "o", "n", "t", "o", "h">> }

ParsedRows ==
    { << [NoFields EXCEPT !.invoice_no = <<"I", "N", "V", "-", "0", "0", "1">>, !.buyer_name = n, !.subtotal = b] >> :
        n \in Buyers, b \in TaxBases }

InitBuild ==
    /\ pc = "call"
    /\ arg \in ParsedRows
    /\ ret = <<>>
    /\ BatchIdle

Call_build_excel_and_xml ==
    /\ pc = "call"
    /\ build_excel_and_xml(arg)
    /\ pc' = "done"
    /\ UNCHANGED <<arg, ret, uploaded_files, i, parsed>>

NextBuild == Call_build_excel_and_xml

SpecBuild == InitBuild /\ [][NextBuild]_vars

\* r is num / den rounded to the nearest integer, a tie to the even one
IsRounded(r, num, den) ==
    LET twice == 2 * (den * r - num)
    IN  /\ twice <= den /\ 0 - twice <= den
        /\ (twice = den \/ 0 - twice = den) => r % 2 = 0

\* C8: for a parsed non-negative integer tax base B, 'DPP Nilai Lain' is
\* round(B * 11/12) and 'PPN' is round(DPP Nilai Lain * 0.12), taken from the
\* rounded DPP Nilai Lain and not from B; the XML's OtherTaxBase and VAT show
\* the same two values.
C8_DerivedFromRoundedBase ==
    pc = "done" =>
        \A k \in 1..Len(arg) :
            (~arg[k].subtotal.null /\ arg[k].subtotal.e = 0 /\ arg[k].subtotal.m >= 0) =>
                /\ ~detail_rows[k].DPP_Nilai_Lain.blank
                /\ ~detail_rows[k].PPN.blank
                /\ IsRounded(detail_rows[k].DPP_Nilai_Lain.n, 11 * arg[k].subtotal.m, 12)
                /\ IsRounded(detail_rows[k].PPN.n, 12 * detail_rows[k].DPP_Nilai_Lain.n, 100)
                /\ AllDigits(xml_invoices[k].GoodService.OtherTaxBase)
                /\ AllDigits(xml_invoices[k].GoodService.VAT)
                /\ DigitsValue(xml_invoices[k].GoodService.OtherTaxBase)
                        = detail_rows[k].DPP_Nilai_Lain.n
                /\ DigitsValue(xml_invoices[k].GoodService.VAT) = detail_rows[k].PPN.n

\* B = 900000: 825000 and 99000
C8_Witness ==
    /\ pc = "done"
    /\ arg[1].subtotal = Decimal(900000, 0)
    /\ detail_rows[1].DPP_Nilai_Lain = IntCell(825000)
    /\ detail_rows[1].PPN = IntCell(99000)
    /\ xml_invoices[1].GoodService.OtherTaxBase = <<"8", "2", "5", "0", "0", "0">>
    /\ xml_invoices[1].GoodService.VAT = <<"9", "9", "0", "0", "0">>

-----------------------------------------------------------------------------
(* extract_fields_from_text called on documents made of amount lines.       *)

MaxAmountLines == 3

AmountLines ==
    { <<"S", "u", "b", " ", "T", "o", "t", "a", "l", " ", "9", "0", "0", ".", "0", "0", "0">>, <<"V", "A", "T", " ", "9", "9", ".", "0", "0", "0">>, <<"T", "o", "t", "a", "l", " ", "9", "9", "9", ".", "0", "0", "0">>, <<"I", "t", "e", "m", " ", "1", ".", "0", "0", "0">>, <<"T", "o", "t", "a", "l">> }

AmountDocuments == { join(<<"\n">>, l) : l \in ListsUpTo(AmountLines, MaxAmountLines) }

InitAmounts ==
    /\ pc = "call"
    /\ arg \in AmountDocuments
    /\ ret = NoFields
    /\ BatchIdle

Call_extract_amounts ==
    /\ pc = "call"
    /\ ret' = extract_fields_from_text(arg)
    /\ pc' = "done"
    /\ UNCHANGED <<arg, batch_vars>>

NextAmounts == Call_extract_amounts

SpecAmounts == InitAmounts /\ [][NextAmounts]_vars

RECURSIVE LabelledAmountAlone(_, _, _, _)
\* One rule of the bottom-up scan (lines 226-229, 232-235 or 238-241) run
\* without the other two: from line k up, the amount of the first line that
\* has the label and an amount, kept once it is not None.
LabelledAmountAlone(lines, k, label, found) ==
    IF k < 1 THEN found
    ELSE LET scan(m) ==
                 IF found.null /\ re_search(label, lower(lines[k])).found /\ m.found
                 THEN clean_number(group(m, lines[k], 1))
                 ELSE found
         IN  LabelledAmountAlone(lines, k - 1, label, scan(re_search(RE_amount, lines[k])))

\* the subtotal rule alone: its label (line 226), then its fallback (250-256)
SubtotalAlone(lines) ==
    LET fallback(v) == IF v.null THEN first_grouped_amount(lines, 1) ELSE v
    IN  fallback(LabelledAmountAlone(lines, Len(lines), RE_subtotal, NoNumber))

VatAlone(lines) == LabelledAmountAlone(lines, Len(lines), RE_vat, NoNumber)

TotalAlone(lines) == LabelledAmountAlone(lines, Len(lines), RE_total, NoNumber)

\* C11, as stated: the rules of extract_fields_from_text are independent and
\* order-insensitive.  For every document, subtotal, vat and total are each
\* the value the field's own rule yields when run alone on the same lines,
\* whatever the other rules have matched or set.
C11_RulesAreIndependent ==
    pc = "done" =>
        /\ ret.subtotal = SubtotalAlone(text_lines(arg))
        /\ ret.vat = VatAlone(text_lines(arg))
        /\ ret.total = TotalAlone(text_lines(arg))

=============================================================================
